---- MODULE Spec2Model ----
(***************************************************************************)
(* Model of app.py: the Spanish -> English translator.                     *)
(*                                                                         *)
(* A Python str is a sequence of one-character strings.  Two               *)
(* specifications are given:                                               *)
(*   Spec     one call of translate_text, one step per statement group     *)
(*            (entry test, one loop iteration, final flush, backend call,  *)
(*            join), over texts built from boundary-length lines;          *)
(*   AppSpec  the Streamlit script, one action per script run (page load,  *)
(*            canvas button, txt / xlsx / pdf upload), each run calling    *)
(*            get_translator and translate_text as whole functions.        *)
(***************************************************************************)
EXTENDS Integers, Sequences, FiniteSets, TLC

VARIABLES
    \* ---- translate_text, one call (Spec) ----
    pc,             \* "idle" | "loop" | "backend" | "join" | "done"
    text,           \* the argument
    lines,          \* text.splitlines()
    i,              \* index of the next line the for loop takes
    chunks,         \* chunks
    current_chunk,  \* current_chunk
    translations,   \* translations
    result,         \* the returned value
    outcome,        \* "none" | "blank" | "ok" | "error": how the call went
    backend,        \* which stub the backend call behaved as
    invocations,    \* number of translator(...) calls made
    cur_lines,      \* history: indices of the lines held by current_chunk
    groups,         \* history: groups[k] = indices of the lines of chunks[k]
    dropped,        \* history: lines whose buffer was discarded unflushed
    first_buffer,   \* history: current_chunk is still the initial buffer
    last_step,      \* history: what the last loop iteration did
    \* ---- the Streamlit process (AppSpec) ----
    resource_cache, \* st.cache_resource entry of get_translator: <<>> or <<id>>
    constructions,  \* number of pipeline(...) constructions completed
    translator,     \* module global `translator` of the last script run
    used,           \* history: engine instances that served a backend call
    page,           \* "none" | "shown" | "failed": what the browser shows
    nonblank_calls, \* history: translate_text calls whose input was not blank
    runs,           \* number of script runs so far
    run             \* record describing the last script run

tvars == <<pc, text, lines, i, chunks, current_chunk, translations, result,
           outcome, backend, cur_lines, groups, dropped, first_buffer,
           last_step>>
avars == <<resource_cache, constructions, translator, used, page,
           nonblank_calls, runs, run>>
vars  == <<tvars, invocations, avars>>

(***************************************************************************)
(* Bounds                                                                  *)
(***************************************************************************)
MaxLines == 3      \* lines per text in Spec
MaxRuns  == 3      \* script runs in AppSpec

(***************************************************************************)
(* Python str operations                                                   *)
(***************************************************************************)
Whitespace == {" ", "\t", "\n", "\r"}

Rep(c, n) == [k \in 1..n |-> c]

IsBlank(s) == \A k \in 1..Len(s) : s[k] \in Whitespace

\* first index in lo..hi holding a non-whitespace character (hi if none
\* before it); bisection keeps the recursion depth logarithmic
RECURSIVE FirstNonWs(_, _, _)
FirstNonWs(s, lo, hi) ==
    IF lo >= hi THEN lo
    ELSE LET mid == (lo + hi) \div 2
         IN  IF \A k \in lo..mid : s[k] \in Whitespace
             THEN FirstNonWs(s, mid + 1, hi)
             ELSE FirstNonWs(s, lo, mid)

RECURSIVE LastNonWs(_, _, _)
LastNonWs(s, lo, hi) ==
    IF lo >= hi THEN hi
    ELSE LET mid == (lo + hi + 1) \div 2
         IN  IF \A k \in mid..hi : s[k] \in Whitespace
             THEN LastNonWs(s, lo, mid - 1)
             ELSE LastNonWs(s, mid, hi)

\* str.strip()
strip(s) ==
    IF IsBlank(s) THEN <<>>
    ELSE SubSeq(s, FirstNonWs(s, 1, Len(s)), LastNonWs(s, 1, Len(s)))

\* sep.join(parts)
RECURSIVE join(_, _)
join(sep, parts) ==
    IF parts = <<>> THEN <<>>
    ELSE IF Len(parts) = 1 THEN parts[1]
    ELSE parts[1] \o sep \o join(sep, Tail(parts))

\* str.splitlines() for the terminators \n, \r and \r\n: the terminators are
\* removed and a terminator at the very end opens no further line
LineEnds(s) ==
    {k \in 1..Len(s) :
        \/ s[k] = "\n"
        \/ s[k] = "\r" /\ ~(k < Len(s) /\ s[k + 1] = "\n")}

splitlines(s) ==
    LET ends    == LineEnds(s)
        nth(n)  == CHOOSE e \in ends : Cardinality({x \in ends : x <= e}) = n
        start(n) == IF n = 1 THEN 1 ELSE nth(n - 1) + 1
        stop(n) == IF n > Cardinality(ends) THEN Len(s)
                   ELSE LET e == nth(n)
                        IN  IF s[e] = "\n" /\ e > 1 /\ s[e - 1] = "\r"
                            THEN e - 2 ELSE e - 1
        count   == Cardinality(ends)
                     + (IF Len(s) > 0 /\ Len(s) \notin ends THEN 1 ELSE 0)
    IN  [n \in 1..count |-> SubSeq(s, start(n), stop(n))]

\* the characters of s that are not whitespace, in order
NonWs(s) == SelectSeq(s, LAMBDA c : c \notin Whitespace)

(***************************************************************************)
(* translate_text                                                          *)
(***************************************************************************)
max_chunk_length == 450

\* the test with the length of the line left out
Overflows_ignoring_line(cc, line) == Len(cc) + 1 > max_chunk_length

\* the test of the loop's if statement
Overflows(cc, line) == Len(cc) + Len(line) + 1 > max_chunk_length

\* the iteration with the flush of the full buffer left out
LineStep_no_flush(cc, ch, line) ==
    IF Len(cc) + Len(line) + 1 > max_chunk_length
    THEN [chunks |-> ch, current_chunk |-> line]
    ELSE [chunks |-> ch, current_chunk |-> cc \o <<" ">> \o line]

\* one iteration of `for line in text.splitlines()`
LineStep(cc, ch, line) ==
    IF Overflows(cc, line)
    THEN [chunks        |-> IF cc # <<>> THEN Append(ch, strip(cc)) ELSE ch,
          current_chunk |-> line]
    ELSE [chunks        |-> ch,
          current_chunk |-> cc \o <<" ">> \o line]

\* the flush after the loop with .strip() left out
FinalFlush_untrimmed(cc, ch) == IF cc # <<>> THEN Append(ch, cc) ELSE ch

\* the flush after the loop
FinalFlush(cc, ch) == IF cc # <<>> THEN Append(ch, strip(cc)) ELSE ch

\* the chunking loop as a whole: lines n.. taken with buffer cc and chunks ch
RECURSIVE ChunkFrom(_, _, _, _)
ChunkFrom(ls, n, cc, ch) ==
    IF n > Len(ls) THEN FinalFlush(cc, ch)
    ELSE LET st == LineStep(cc, ch, ls[n])
         IN  ChunkFrom(ls, n + 1, st.current_chunk, st.chunks)

\* the engine is a black box; two stand-ins for a successful call: the
\* identity, and a marker wrapped around each input
Backends == {"identity", "marker"}
translation_text(b, c) ==
    IF b = "identity" THEN c ELSE <<"<">> \o c \o <<">">>

\* [r['translation_text'] for r in translator(chunks, max_length=512)]
BackendResults(b, ch) == [k \in 1..Len(ch) |-> translation_text(b, ch[k])]

\* the messages of the exceptions the engine is made to raise
Errors == {<<"t", "i", "m", "e", "o", "u", "t">>, <<"O", "O", "M">>}

\* f"[Translation error: {e}]"
ErrorString(e) ==
    <<"[", "T", "r", "a", "n", "s", "l", "a", "t", "i", "o", "n", " ",
      "e", "r", "r", "o", "r", ":", " ">> \o e \o <<"]">>

\* the guard with only `not text`
ReturnsEarly_empty_only(t) == t = <<>>

\* the guard at the top of translate_text
ReturnsEarly(t) == t = <<>> \/ strip(t) = <<>>

(***************************************************************************)
(* Inputs of Spec: lines at the boundaries of max_chunk_length             *)
(***************************************************************************)
Half == max_chunk_length \div 2

LineSet ==
    { <<>>,
      <<"a">>,
      <<" ", "b">>,
      Rep("x", Half - 1),
      Rep("y", max_chunk_length - Half),
      Rep("z", max_chunk_length),
      <<" ">> \o Rep("w", max_chunk_length + 1) \o <<"\t">>,
      Rep(" ", max_chunk_length - 1) }

Seps == {<<"\n">>, <<"\r", "\n">>}

SeqsUpTo(S, n) == UNION {[1..k -> S] : k \in 0..n}

\* texts of up to MaxLines lines ended by \n, and shorter ones ended by \r\n
Texts ==
    {join(<<"\n">>, ls) : ls \in SeqsUpTo(LineSet, MaxLines)}
      \cup {join(sep, ls) : ls \in SeqsUpTo(LineSet, MaxLines - 1), sep \in Seps}

(***************************************************************************)
(* translate_text as one call: o is what the engine does when invoked,     *)
(* [kind |-> "ok", b |-> stand-in] or [kind |-> "error", e |-> message]    *)
(***************************************************************************)
Outcomes == [kind : {"ok"}, b : Backends, e : {<<>>}]
              \cup [kind : {"error"}, b : {"raises"}, e : Errors]

\* translate_text with the try/except left out: the engine's exception
\* leaves the function
translate_text_uncaught(t, o) ==
    IF ReturnsEarly(t)
    THEN [text |-> t, invoked |-> FALSE, chunks |-> <<>>,
          translations |-> <<>>, outcome |-> "blank", raised |-> FALSE,
          result |-> t]
    ELSE LET ch == ChunkFrom(splitlines(t), 1, <<>>, <<>>)
         IN  IF o.kind = "ok"
             THEN [text |-> t, invoked |-> TRUE, chunks |-> ch,
                   translations |-> BackendResults(o.b, ch), outcome |-> "ok",
                   raised |-> FALSE,
                   result |-> join(<<"\n", "\n">>, BackendResults(o.b, ch))]
             ELSE [text |-> t, invoked |-> TRUE, chunks |-> ch,
                   translations |-> <<>>, outcome |-> "error",
                   raised |-> TRUE, result |-> <<>>]

translate_text(t, o) ==
    IF ReturnsEarly(t)
    THEN [text |-> t, invoked |-> FALSE, chunks |-> <<>>,
          translations |-> <<>>, outcome |-> "blank", raised |-> FALSE,
          result |-> t]
    ELSE LET ch == ChunkFrom(splitlines(t), 1, <<>>, <<>>)
             tr == IF o.kind = "ok" THEN BackendResults(o.b, ch)
                   ELSE <<ErrorString(o.e)>>
         IN  [text |-> t, invoked |-> TRUE, chunks |-> ch,
              translations |-> tr, outcome |-> o.kind, raised |-> FALSE,
              result |-> join(<<"\n", "\n">>, tr)]

(***************************************************************************)
(* get_translator under @st.cache_resource: the cached instance if there   *)
(* is one, else a construction whose result is cached.  n is the number of *)
(* constructions so far; instances are numbered in construction order.     *)
(***************************************************************************)
\* get_translator without the decorator: every call builds an engine
get_translator_uncached(cache, n) ==
    [instance |-> n + 1, cache |-> <<n + 1>>, constructions |-> n + 1]

get_translator(cache, n) ==
    IF cache # <<>>
    THEN [instance |-> cache[1], cache |-> cache, constructions |-> n]
    ELSE [instance |-> n + 1, cache |-> <<n + 1>>, constructions |-> n + 1]

(***************************************************************************)
(* The script below line 45                                                *)
(***************************************************************************)
\* str.split('\n\n'): separators are taken left to right without overlap, so
\* in a run of newlines the separators start at even offsets of the run
IsSep(s, k) ==
    /\ k < Len(s) /\ s[k] = "\n" /\ s[k + 1] = "\n"
    /\ LET r == CHOOSE r \in 1..k :
                   /\ \A j \in r..k : s[j] = "\n"
                   /\ r = 1 \/ s[r - 1] # "\n"
       IN  (k - r) % 2 = 0

split2(s) ==
    LET seps   == {k \in 1..Len(s) : IsSep(s, k)}
        nth(n) == CHOOSE e \in seps : Cardinality({x \in seps : x <= e}) = n
        count  == Cardinality(seps) + 1
    IN  [n \in 1..count |->
            SubSeq(s, IF n = 1 THEN 1 ELSE nth(n - 1) + 2,
                      IF n = count THEN Len(s) ELSE nth(n) - 1)]

\* the Word export of a text: one paragraph per '\n\n'-separated part
Paragraphs(s) == split2(s)

\* spreadsheet cells: the Python type of the value and its str()
Str(s) == [type |-> "str", v |-> s]
Int42  == [type |-> "int", v |-> <<"4", "2">>]
NaN    == [type |-> "float", v |-> <<"n", "a", "n">>]

\* the lambda with `and x.strip()` left out
CellFn_any_string(x, o) ==
    IF x.type = "str"
    THEN LET c == translate_text(x.v, o)
         IN  [value |-> Str(c.result), calls |-> <<c>>]
    ELSE [value |-> x, calls |-> <<>>]

\* the lambda handed to df.applymap (line 105)
CellFn(x, o) ==
    IF x.type = "str" /\ strip(x.v) # <<>>
    THEN LET c == translate_text(x.v, o)
         IN  [value |-> Str(c.result), calls |-> <<c>>]
    ELSE [value |-> x, calls |-> <<>>]

NRows(df) == Len(df)
NCols(df) == Len(df[1])

\* applymap visits the frame column by column
CellAt(df, k) == <<((k - 1) % NRows(df)) + 1, ((k - 1) \div NRows(df)) + 1>>

RECURSIVE CellCalls(_, _, _)
CellCalls(df, o, k) ==
    IF k > NRows(df) * NCols(df) THEN <<>>
    ELSE LET at == CellAt(df, k)
         IN  CellFn(df[at[1]][at[2]], o).calls \o CellCalls(df, o, k + 1)

RECURSIVE RoutedCells(_, _, _)
RoutedCells(df, o, k) ==
    IF k > NRows(df) * NCols(df) THEN {}
    ELSE LET at == CellAt(df, k)
         IN  (IF CellFn(df[at[1]][at[2]], o).calls # <<>> THEN {at} ELSE {})
               \cup RoutedCells(df, o, k + 1)

applymap(df, o) ==
    [r \in 1..NRows(df) |-> [c \in 1..NCols(df) |-> CellFn(df[r][c], o).value]]

AnyRaised(calls) == \E k \in 1..Len(calls) : calls[k].raised

NoFile  == [type |-> "none", text |-> <<>>, df |-> <<>>, pages |-> <<>>]
NoTable == <<>>

Section(calls, output, table, routed, exports, warning) ==
    [calls |-> calls, output |-> output, table |-> table, routed |-> routed,
     exports |-> exports, warning |-> warning, raised |-> AnyRaised(calls)]

Skipped == Section(<<>>, <<>>, NoTable, {}, <<>>, FALSE)

Export(name, body) == [name |-> name, body |-> body]

\* lines 54-71
CanvasSection(button, spanish_text, o) ==
    IF ~button THEN Skipped
    ELSE IF strip(spanish_text) = <<>>
    THEN Section(<<>>, <<>>, NoTable, {}, <<>>, TRUE)
    ELSE LET c == translate_text(spanish_text, o)
         IN  IF c.raised THEN Section(<<c>>, <<>>, NoTable, {}, <<>>, FALSE)
             ELSE Section(<<c>>, c.result, NoTable, {},
                    << Export("translated_canvas.txt", <<c.result>>),
                       Export("translated_canvas.docx", Paragraphs(c.result)) >>,
                    FALSE)

\* lines 78-97 and 136-150: a text is translated and exported as TXT and Word
TextSection(t, o, stem) ==
    LET c == translate_text(t, o)
    IN  IF c.raised THEN Section(<<c>>, <<>>, NoTable, {}, <<>>, FALSE)
        ELSE Section(<<c>>, c.result, NoTable, {},
               << Export(stem \o ".txt", <<c.result>>),
                  Export(stem \o ".docx", Paragraphs(c.result)) >>,
               FALSE)

\* lines 125-131: the text of the pages that have any, each followed by \n
RECURSIVE PdfText(_)
PdfText(pages) ==
    IF pages = <<>> THEN <<>>
    ELSE (IF pages[1] # <<>> THEN pages[1] \o <<"\n">> ELSE <<>>)
           \o PdfText(Tail(pages))

\* lines 116-117: one paragraph per row, the cells' str() joined by tabs
RowParagraphs(df) ==
    [r \in 1..NRows(df) |->
        join(<<"\t">>, [c \in 1..NCols(df) |-> df[r][c].v])]

\* lines 101-121
SheetSection(df, o) ==
    LET calls == CellCalls(df, o, 1)
    IN  IF AnyRaised(calls)
        THEN Section(calls, <<>>, NoTable, RoutedCells(df, o, 1), <<>>, FALSE)
        ELSE LET out == applymap(df, o)
             IN  Section(calls, <<>>, out, RoutedCells(df, o, 1),
                    << Export("translated.xlsx", out),
                       Export("translated.xlsx.docx", RowParagraphs(out)) >>,
                    FALSE)

\* lines 77-150: dispatch on the uploaded file's MIME type
FileSection(file, o) ==
    IF file.type = "none" THEN Skipped
    ELSE IF file.type = "text/plain" THEN TextSection(file.text, o, "translated")
    ELSE IF file.type = "spreadsheet" THEN SheetSection(file.df, o)
    ELSE IF file.type = "application/pdf"
    THEN TextSection(PdfText(file.pages), o, "translated_pdf")
    ELSE Skipped

(***************************************************************************)
(* Inputs of AppSpec                                                       *)
(***************************************************************************)
Hola  == <<"H", "o", "l", "a">>
Mundo == <<"m", "u", "n", "d", "o">>
TwoChunks == Rep("z", max_chunk_length) \o <<"\n">> \o Hola

AppTexts == {<<>>, <<" ", "\n">>, Hola, Hola \o <<"\n">> \o Mundo, TwoChunks}

CellValues == {Str(Hola), Str(<<>>), Str(<<" ">>), Int42, NaN}

\* every one-row frame of two cells, the row ["Hola", 42, ""], and a frame
\* of two rows
Frames ==
    [1..1 -> [1..2 -> CellValues]]
      \cup { << <<Str(Hola), Int42, Str(<<>>)>> >>,
             << <<Str(Hola), Str(<<"\t", " ">>)>>, <<NaN, Str(Mundo)>> >> }

PdfPages == {<<>>, <<<<>>>>, <<Hola>>, <<Hola, <<>>, Mundo>>, <<<<" ">>>>}

TxtFile(t)   == [type |-> "text/plain", text |-> t, df |-> <<>>, pages |-> <<>>]
XlsxFile(df) == [type |-> "spreadsheet", text |-> <<>>, df |-> df, pages |-> <<>>]
PdfFile(pp)  == [type |-> "application/pdf", text |-> <<>>, df |-> <<>>, pages |-> pp]
OtherFile    == [type |-> "application/octet-stream", text |-> <<>>, df |-> <<>>,
                 pages |-> <<>>]

Files == {TxtFile(t) : t \in AppTexts} \cup {XlsxFile(df) : df \in Frames}
           \cup {PdfFile(pp) : pp \in PdfPages} \cup {OtherFile}

\* what the widgets hold when a script run starts: the button, the text
\* area and the uploader
Interactions ==
    [button : {TRUE}, spanish_text : AppTexts, file : {NoFile}]
      \cup [button : {FALSE}, spanish_text : {<<>>}, file : Files]
      \cup [button : {TRUE}, spanish_text : {Hola},
             file : {TxtFile(<<>>), TxtFile(Mundo)}]

\* what the engine does during one script run
AppOutcomes == {o \in Outcomes : o.kind = "error" => o.e = <<"O", "O", "M">>}

NoInteraction == [button |-> FALSE, spanish_text |-> <<>>, file |-> NoFile]

NoRun == [kind |-> "none", input |-> NoInteraction, built |-> FALSE,
          canvas |-> Skipped, upload |-> Skipped, completed |-> FALSE]

(***************************************************************************)
(* Spec: one call of translate_text, statement by statement                *)
(***************************************************************************)
AppIdle ==
    /\ resource_cache = <<>>
    /\ constructions = 0
    /\ translator = 0
    /\ used = {}
    /\ page = "none"
    /\ nonblank_calls = 0
    /\ runs = 0
    /\ run = NoRun

Init ==
    /\ pc = "idle"
    /\ text = <<>>
    /\ lines = <<>>
    /\ i = 1
    /\ chunks = <<>>
    /\ current_chunk = <<>>
    /\ translations = <<>>
    /\ result = <<>>
    /\ outcome = "none"
    /\ backend = "none"
    /\ invocations = 0
    /\ cur_lines = <<>>
    /\ groups = <<>>
    /\ dropped = {}
    /\ first_buffer = TRUE
    /\ last_step = "none"
    /\ AppIdle

\* lines 21-27: the early return, or the set-up of the loop
Call(t) ==
    /\ pc = "idle"
    /\ text' = t
    /\ IF ReturnsEarly(t)
       THEN /\ result' = t
            /\ outcome' = "blank"
            /\ pc' = "done"
            /\ lines' = lines
       ELSE /\ lines' = splitlines(t)
            /\ pc' = "loop"
            /\ UNCHANGED <<result, outcome>>
    /\ UNCHANGED <<i, chunks, current_chunk, translations, backend,
                   invocations, cur_lines, groups, dropped, first_buffer,
                   last_step>>
    /\ UNCHANGED avars

\* lines 28-34: one iteration of the loop
LoopBody ==
    /\ pc = "loop"
    /\ i <= Len(lines)
    /\ LET st == LineStep(current_chunk, chunks, lines[i])
           ov == Overflows(current_chunk, lines[i])
       IN  /\ chunks' = st.chunks
           /\ current_chunk' = st.current_chunk
           /\ cur_lines' = IF ov THEN <<i>> ELSE Append(cur_lines, i)
           /\ groups' = IF Len(st.chunks) > Len(chunks)
                        THEN Append(groups, cur_lines) ELSE groups
           /\ dropped' = IF ov /\ Len(st.chunks) = Len(chunks)
                         THEN dropped \cup {cur_lines[k] : k \in 1..Len(cur_lines)}
                         ELSE dropped
           /\ first_buffer' = (first_buffer /\ ~ov)
           /\ last_step' = IF ~ov THEN "append"
                           ELSE IF Len(st.chunks) > Len(chunks) THEN "flush"
                           ELSE "restart"
    /\ i' = i + 1
    /\ UNCHANGED <<pc, text, lines, translations, result, outcome, backend,
                   invocations>>
    /\ UNCHANGED avars

\* lines 35-36: the flush after the loop
LoopExit ==
    /\ pc = "loop"
    /\ i > Len(lines)
    /\ chunks' = FinalFlush(current_chunk, chunks)
    /\ groups' = IF Len(chunks') > Len(chunks)
                 THEN Append(groups, cur_lines) ELSE groups
    /\ dropped' = IF Len(chunks') = Len(chunks)
                  THEN dropped \cup {cur_lines[k] : k \in 1..Len(cur_lines)}
                  ELSE dropped
    /\ pc' = "backend"
    /\ UNCHANGED <<text, lines, i, current_chunk, translations, result,
                   outcome, backend, invocations, cur_lines, first_buffer,
                   last_step>>
    /\ UNCHANGED avars

\* lines 39-40: the engine answers
BackendReturns(b) ==
    /\ pc = "backend"
    /\ translations' = BackendResults(b, chunks)
    /\ backend' = b
    /\ outcome' = "ok"
    /\ invocations' = invocations + 1
    /\ pc' = "join"
    /\ UNCHANGED <<text, lines, i, chunks, current_chunk, result, cur_lines,
                   groups, dropped, first_buffer, last_step>>
    /\ UNCHANGED avars

\* lines 39, 41-42: the engine raises an Exception
BackendRaises(e) ==
    /\ pc = "backend"
    /\ translations' = <<ErrorString(e)>>
    /\ backend' = "raises"
    /\ outcome' = "error"
    /\ invocations' = invocations + 1
    /\ pc' = "join"
    /\ UNCHANGED <<text, lines, i, chunks, current_chunk, result, cur_lines,
                   groups, dropped, first_buffer, last_step>>
    /\ UNCHANGED avars

\* line 43
Return ==
    /\ pc = "join"
    /\ result' = join(<<"\n", "\n">>, translations)
    /\ pc' = "done"
    /\ UNCHANGED <<text, lines, i, chunks, current_chunk, translations,
                   outcome, backend, invocations, cur_lines, groups, dropped,
                   first_buffer, last_step>>
    /\ UNCHANGED avars

Next ==
    \/ \E t \in Texts : Call(t)
    \/ LoopBody
    \/ LoopExit
    \/ \E b \in Backends : BackendReturns(b)
    \/ \E e \in Errors : BackendRaises(e)
    \/ Return

Spec == Init /\ [][Next]_vars

TypeOK == pc \in {"idle", "loop", "backend", "join", "done"}

(***************************************************************************)
(* AppSpec: the Streamlit process, one action per script run               *)
(***************************************************************************)
Invoked(calls)  == Cardinality({k \in 1..Len(calls) : calls[k].invoked})
NonBlank(calls) == Cardinality({k \in 1..Len(calls) : ~IsBlank(calls[k].text)})

\* One run of the whole script with the widgets holding `w`: line 15, the
\* canvas section, then the upload section.  The first run of a session has
\* nothing to interact with; a run that raised leaves the page as it was.
RunScript(w, o) ==
    /\ runs < MaxRuns
    /\ w # NoInteraction => page = "shown"
    /\ LET g     == get_translator(resource_cache, constructions)
           cs    == CanvasSection(w.button, w.spanish_text, o)
           fs    == IF cs.raised THEN Skipped ELSE FileSection(w.file, o)
           calls == cs.calls \o fs.calls
       IN  /\ resource_cache' = g.cache
           /\ constructions' = g.constructions
           /\ translator' = g.instance
           /\ used' = IF Invoked(calls) > 0 THEN used \cup {g.instance} ELSE used
           /\ invocations' = invocations + Invoked(calls)
           /\ nonblank_calls' = nonblank_calls + NonBlank(calls)
           /\ run' = [kind |-> "run", input |-> w,
                      built |-> (g.constructions > constructions),
                      canvas |-> cs, upload |-> fs,
                      completed |-> ~(cs.raised \/ fs.raised)]
    /\ page' = "shown"
    /\ runs' = runs + 1
    /\ UNCHANGED tvars

\* Line 15 raises: pipeline(...) could not build the engine (no model files,
\* no memory).  Nothing is cached and the script stops before any widget.
LoadFails ==
    /\ runs < MaxRuns
    /\ resource_cache = <<>>
    /\ page' = "failed"
    /\ run' = [NoRun EXCEPT !.kind = "load_failed"]
    /\ runs' = runs + 1
    /\ UNCHANGED <<resource_cache, constructions, translator, used,
                   invocations, nonblank_calls>>
    /\ UNCHANGED tvars

AppNext ==
    \/ \E w \in Interactions \cup {NoInteraction}, o \in AppOutcomes :
          RunScript(w, o)
    \/ LoadFails

AppSpec == Init /\ [][AppNext]_vars

(***************************************************************************)
(* Properties of the chunking loop (Spec)                                  *)
(***************************************************************************)
GroupLines(g) == [j \in 1..Len(g) |-> lines[g[j]]]
Chunked == pc \in {"backend", "join", "done"} /\ outcome # "blank"
IsLong(j) == Len(lines[j]) > max_chunk_length

\* C1: a chunk is at most max_chunk_length long unless it is made of one
\* source line that is itself longer; a line longer than max_chunk_length is
\* never put in a buffer with another line, never dropped, and its chunk is
\* the whole line but for the whitespace strip() removes at its two ends.
ChunkLengthBound ==
    /\ Len(groups) = Len(chunks)
    /\ \A k \in 1..Len(chunks) :
          \/ Len(chunks[k]) <= max_chunk_length
          \/ Len(groups[k]) = 1 /\ IsLong(groups[k][1])
    /\ \A k \in 1..Len(groups) : \A j \in 1..Len(groups[k]) :
          IsLong(groups[k][j]) =>
             Len(groups[k]) = 1 /\ chunks[k] = strip(lines[groups[k][1]])
    /\ \A j \in 1..Len(cur_lines) : IsLong(cur_lines[j]) => Len(cur_lines) = 1
    /\ \A j \in dropped : ~IsLong(j)

\* a finished call with an oversized chunk between two ordinary ones
ChunkLengthBoundWitness ==
    /\ pc = "done" /\ Len(chunks) = 3
    /\ Len(chunks[1]) <= max_chunk_length
    /\ Len(chunks[2]) > max_chunk_length
    /\ Len(chunks[3]) <= max_chunk_length

\* C2: no chunk the loop produces for a non-blank text is the empty string.
NoEmptyChunk == \A k \in 1..Len(chunks) : chunks[k] # <<>>

\* C3: when the call is over, failed or not, as many segments were joined as
\* chunks were sent, and segment k is the engine's answer to chunk k.
SegmentsAligned ==
    (pc = "done" /\ outcome # "blank") =>
        /\ Len(translations) = Len(chunks)
        /\ result = join(<<"\n", "\n">>, translations)
        /\ outcome = "ok" =>
              \A k \in 1..Len(chunks) :
                  translations[k] = translation_text(backend, chunks[k])

\* C6: with the identity engine the result has the non-whitespace
\* characters of the text, in order; it is the chunks joined by "\n\n", each
\* chunk being its lines joined by single spaces and stripped; the chunks
\* take the lines in order, each once, and a line in no chunk is empty.
IdentityRoundTrip ==
    (pc = "done" /\ outcome = "ok" /\ backend = "identity") =>
        /\ NonWs(result) = NonWs(text)
        /\ result = join(<<"\n", "\n">>,
                         [k \in 1..Len(groups) |->
                             strip(join(<<" ">>, GroupLines(groups[k])))])
        /\ LET f == join(<<>>, groups)
           IN  /\ \A a, b \in 1..Len(f) : a < b => f[a] < f[b]
               /\ {f[a] : a \in 1..Len(f)} \cup dropped = 1..Len(lines)
               /\ {f[a] : a \in 1..Len(f)} \cap dropped = {}
        /\ \A j \in dropped : lines[j] = <<>>

\* an identity round trip of two chunks, one of them of two lines
IdentityRoundTripWitness ==
    /\ pc = "done" /\ outcome = "ok" /\ backend = "identity"
    /\ Len(groups) = 2
    /\ Len(groups[1]) = 2
    /\ NonWs(text) # <<>>
    /\ result # text

\* C9: a text of one line longer than max_chunk_length gives exactly one
\* chunk, the line stripped.
SingleLongLine ==
    (Chunked /\ Len(lines) = 1 /\ IsLong(1)) => chunks = <<strip(lines[1])>>

\* the one chunk of a long line that had whitespace at its ends
SingleLongLineWitness ==
    /\ Chunked /\ Len(lines) = 1 /\ IsLong(1)
    /\ Len(chunks) = 1
    /\ Len(chunks[1]) > max_chunk_length
    /\ chunks[1] # lines[1]

\* C10: with lines l1..lk in the buffer, joined by single spaces, the next
\* line is appended exactly when len(buffer) + len(line) + 1 is at most
\* max_chunk_length, and otherwise the stripped buffer becomes a chunk and
\* the line the new buffer -- in the first buffer as in every later one.
SameAccounting ==
    [][(pc = "loop" /\ i <= Len(lines) /\ cur_lines # <<>>) =>
          LET buffer == join(<<" ">>, GroupLines(cur_lines))
              fits   == Len(buffer) + Len(lines[i]) + 1 <= max_chunk_length
          IN  IF fits
              THEN /\ chunks' = chunks
                   /\ strip(current_chunk') = strip(buffer \o <<" ">> \o lines[i])
              ELSE /\ buffer # <<>> => chunks' = Append(chunks, strip(buffer))
                   /\ current_chunk' = lines[i]]_vars

(***************************************************************************)
(* Properties of the script (AppSpec)                                      *)
(***************************************************************************)
RunCalls == run.canvas.calls \o run.upload.calls

\* C4: a call of translate_text with an empty or all-whitespace text returns
\* the text as it is and does not invoke the engine; while every call so far
\* was of that kind, the engine has been invoked zero times.
BlankInputUntouched ==
    /\ \A k \in 1..Len(RunCalls) :
          IsBlank(RunCalls[k].text) =>
             RunCalls[k].result = RunCalls[k].text /\ ~RunCalls[k].invoked
    /\ nonblank_calls = 0 => invocations = 0

\* a whitespace-only upload went through translate_text in a second
\* interaction and the engine is still uninvoked
BlankInputUntouchedWitness ==
    /\ runs = MaxRuns
    /\ invocations = 0
    /\ Len(RunCalls) = 1
    /\ RunCalls[1].text = <<" ", "\n">>
    /\ RunCalls[1].result = <<" ", "\n">>

\* C5: a call in which the engine raised did not raise itself; its
\* translations are the one error string, which is its result; the script
\* run completed and the section that made the call reached its exports.
BackendFailureIsData ==
    /\ \A k \in 1..Len(RunCalls) :
          RunCalls[k].outcome = "error" =>
             /\ ~RunCalls[k].raised
             /\ Len(RunCalls[k].translations) = 1
             /\ \E e \in Errors : RunCalls[k].translations[1] = ErrorString(e)
             /\ RunCalls[k].result = RunCalls[k].translations[1]
             /\ run.completed
    /\ \A sec \in {run.canvas, run.upload} :
          (\E k \in 1..Len(sec.calls) : sec.calls[k].outcome = "error") =>
             Len(sec.exports) = 2

\* the engine failed on a text of two chunks and the run still exported
BackendFailureIsDataWitness ==
    /\ Len(RunCalls) = 1
    /\ RunCalls[1].outcome = "error"
    /\ Len(RunCalls[1].chunks) = 2
    /\ run.completed
    /\ Len(run.upload.exports) = 2

\* C7: at most one engine is ever built; every engine call is served by that
\* first instance; a run started by a translation request builds none.
EngineBuiltOnce ==
    /\ constructions <= 1
    /\ used \subseteq {1}
    /\ resource_cache # <<>> => translator = resource_cache[1]
    /\ (run.kind = "run" /\ run.input # NoInteraction) => ~run.built

\* several runs after the one construction, the engine called in more than
\* one of them
EngineBuiltOnceWitness ==
    /\ runs = MaxRuns
    /\ constructions = 1
    /\ used = {1}
    /\ invocations >= 2
    /\ run.input # NoInteraction

\* C8: in a spreadsheet run exactly the cells holding a string with
\* non-whitespace content go through translate_text; every other cell keeps
\* its value and invokes nothing; the translated frame has the input's shape.
OnlyTextCellsRouted ==
    (run.kind = "run" /\ run.input.file.type = "spreadsheet") =>
        LET df   == run.input.file.df
            out  == run.upload.table
            text_cells == {at \in (1..Len(df)) \X (1..Len(df[1])) :
                             /\ df[at[1]][at[2]].type = "str"
                             /\ ~IsBlank(df[at[1]][at[2]].v)}
        IN  /\ run.upload.routed = text_cells
            /\ Len(run.upload.calls) = Cardinality(text_cells)
            /\ Invoked(run.upload.calls) = Cardinality(text_cells)
            /\ Len(out) = Len(df)
            /\ \A r \in 1..Len(df) :
                  /\ Len(out[r]) = Len(df[r])
                  /\ \A c \in 1..Len(df[r]) :
                        <<r, c>> \notin text_cells => out[r][c] = df[r][c]

\* the row ["Hola", 42, ""] came out as ["<Hola>", 42, ""]
OnlyTextCellsRoutedWitness ==
    /\ run.kind = "run"
    /\ run.input.file = XlsxFile(<< <<Str(Hola), Int42, Str(<<>>)>> >>)
    /\ run.upload.table = << <<Str(<<"<">> \o Hola \o <<">">>), Int42, Str(<<>>)>> >>
    /\ run.upload.routed = {<<1, 1>>}
====
